---- MODULE Spec2Model ----
(***************************************************************************)
(* A model of midi-rs (src/src/main.rs): the MIDI message decoder           *)
(* decode_midi_message and the Synthesizer it drives (note_on, note_off,    *)
(* pitch_bend_change, apply_pitch_bend, midi_note_to_freq).                 *)
(*                                                                          *)
(* Frequencies are kept in the logarithmic domain: a frequency f is         *)
(* represented by the integer UnitsPerSemitone * 12 * log2(f / 440), its    *)
(* pitch relative to A4 in 1/4096 semitone.  In that domain                 *)
(* 440 * 2^((note-69)/12) is (note-69) * UnitsPerSemitone and a             *)
(* multiplication by semitone_ratio^bend_amount is the addition of          *)
(* bend_amount * UnitsPerSemitone, which is exact for every i16 bend value. *)
(* The rounding of f32 arithmetic is not modelled.                          *)
(*                                                                          *)
(* A rodio Sink is a record: alloc (the Sink value exists, it was not       *)
(* dropped), paused and stopped (its control flags) and queue (the sources  *)
(* appended and not cleared).  A SineWave never ends, so a sink renders     *)
(* the head of its queue for ever.                                          *)
(***************************************************************************)
EXTENDS Integers, Sequences, FiniteSets, TLC

\* ---------------------------------------------------------------- bounds
\* Number of Sink slots of the audio output.  One more than the number of
\* distinct notes the event source sends, so that the output never runs out of
\* slots by itself: a replacement holds two sinks for a moment.
PoolSize == 4

\* ---------------------------------------------------------------- inputs
\* Second byte of a note message.  200 is a byte no MIDI note number has.
NoteBytes == {60, 64, 200}
\* Third byte of a note message.
VelocityBytes == {0, 100}
\* Second and third byte of a pitch-bend message, least significant first:
\* the lowest 14-bit value, the centre, one above the centre, a semitone up
\* and the highest, and three pairs with a byte whose top bit is set.
BendBytes ==
    {<<0, 0>>, <<0, 64>>, <<1, 64>>, <<0, 96>>, <<127, 127>>,
     <<255, 0>>, <<0, 255>>, <<255, 255>>}
\* The status bytes of NoteOff, NoteOn and PitchBend on channels 0 and 15.
NoteOffStatus == {128, 143}
NoteOnStatus == {144, 159}
PitchBendStatus == {224, 239}

\* Messages that come with every byte their status byte asks for; the last
\* three have a status byte outside 0x80..0xEF.
FullMessages ==
    {<<s, n, 0>> : s \in NoteOffStatus, n \in NoteBytes}
        \cup {<<144, n, v>> : n \in NoteBytes, v \in VelocityBytes}
        \cup {<<159, n, 100>> : n \in NoteBytes}
        \cup {<<224, b[1], b[2]>> : b \in BendBytes}
        \cup {<<239, 0, 64>>, <<239, 127, 127>>}
        \cup {<<160, 60, 100>>, <<176, 60, 100>>, <<192, 60>>, <<208, 60>>}
        \cup {<<64, 60, 100>>, <<240, 60, 100>>, <<240>>}

\* The messages cut short, the empty one included.
Truncations(m) == {SubSeq(m, 1, k) : k \in 0..(Len(m) - 1)}

\* Messages that lack bytes, one of each kind that indexes its message, and
\* the empty message.
TruncatedMessages ==
    UNION {Truncations(m) : m \in {<<128, 60, 0>>, <<144, 60, 100>>, <<160, 60, 100>>,
                                   <<176, 60, 100>>, <<192, 60>>, <<208, 60>>,
                                   <<224, 0, 64>>}}

\* What the event source may deliver.
Messages == FullMessages \cup TruncatedMessages

\* ------------------------------------------------------------- arithmetic
UnitsPerSemitone == 4096
BendCenter == 8192

RECURSIVE BitOr(_, _)
\* a | b on unsigned integers.
BitOr(a, b) ==
    IF a = 0 THEN b
    ELSE IF b = 0 THEN a
    ELSE (IF a % 2 = 1 \/ b % 2 = 1 THEN 1 ELSE 0) + 2 * BitOr(a \div 2, b \div 2)

\* A variant of line 103 that shifts by a whole byte.
ShiftLeft7_u16_By8(x) == (x * 256) % 65536

\* (x as u16) << 7: the bits shifted past bit 15 are lost.
ShiftLeft7_u16(x) == (x * 128) % 65536

\* value as i16: the same 16 bits read as two's complement.
AsI16(value) == IF value >= 32768 THEN value - 65536 ELSE value

\* Whether a - b leaves the i16 range.
SubOverflowsI16(a, b) == a - b < -32768 \/ a - b > 32767

\* a - b wrapped to i16, what a build without overflow checks computes.
WrappingSubI16(a, b) == AsI16((a - b) % 65536)

\* message[i] with the source's indices, which start at 0.
Byte(message, i) == message[i + 1]

\* A variant of line 103 with the two data bytes exchanged.
BendValue_BytesSwapped(message) ==
    BitOr(ShiftLeft7_u16(Byte(message, 1)), Byte(message, 2))

\* ((message[2] as u16) << 7) | message[1] as u16
BendValue(message) == BitOr(ShiftLeft7_u16(Byte(message, 2)), Byte(message, 1))

\* 440.0 * 2^((note - 69) / 12), as a pitch.
midi_note_to_freq(note) == (note - 69) * UnitsPerSemitone

\* base_frequency * semitone_ratio^(pitch_bend_value / 8192 * 2), as a pitch.
apply_pitch_bend(pitch_bend_value, base_frequency) ==
    base_frequency + (pitch_bend_value * 2 * UnitsPerSemitone) \div BendCenter

\* ------------------------------------------------------------ audio sinks
Handles == 1..PoolSize

\* A slot of the output that holds no Sink.
NoSink == [alloc |-> FALSE, paused |-> FALSE, stopped |-> TRUE, queue |-> << >>]

\* The slot Sink::try_new takes: the first one that holds no Sink.
FreeHandle(pool) ==
    CHOOSE h \in Handles : ~pool[h].alloc /\ \A g \in Handles : g < h => pool[g].alloc

HasFreeHandle(pool) == \E h \in Handles : ~pool[h].alloc

\* Sink::try_new(..).unwrap() when Ok: a playing sink with an empty queue.
SinkNew(pool, h) ==
    [pool EXCEPT ![h] = [alloc |-> TRUE, paused |-> FALSE, stopped |-> FALSE,
                         queue |-> << >>]]

\* sink.append(SineWave::new(frequency))
SinkAppend(pool, h, frequency) ==
    [pool EXCEPT ![h].queue = Append(@, frequency)]

\* sink.pause()
SinkPause(pool, h) == [pool EXCEPT ![h].paused = TRUE]

\* sink.clear(): drops the queued sources and leaves the sink paused.
SinkClear(pool, h) == [pool EXCEPT ![h].queue = << >>, ![h].paused = TRUE]

\* sink.play()
SinkPlay(pool, h) == [pool EXCEPT ![h].paused = FALSE]

\* sink.stop()
SinkStop(pool, h) == [pool EXCEPT ![h].stopped = TRUE, ![h].queue = << >>]

\* The Sink value goes out of scope: a sink that was not detached stops.
SinkDrop(pool, h) == [pool EXCEPT ![h] = NoSink]

\* The sink is rendering a tone.
Sounding(s) == s.alloc /\ ~s.stopped /\ ~s.paused /\ s.queue # << >>

\* The frequency a sounding sink renders.
SoundingFrequency(s) == Head(s.queue)

\* ------------------------------------------------------------ Synthesizer
VARIABLES
    sinks,             \* Synthesizer.sinks: note -> (Sink, base frequency)
    pool,              \* the Sinks of the audio output, by slot
    pitch_bend_value,  \* Synthesizer.pitch_bend_value: i16
    status,            \* "running", or the panic that ended the callback
    msg,               \* the message the callback was last called with
    frame,             \* the locals of a note_on that is being executed
    lastOn,            \* history: for each note, the sink made by its last
                       \* note_on if no note_off of the note followed it (a
                       \* set with that one sink), and the empty set if not
    released           \* history: the sinks stopped or dropped by the last step

vars == <<sinks, pool, pitch_bend_value, status, msg, frame, lastOn, released>>

\* The Synthesizer and the output it plays on, as one value.
Engine ==
    [sinks |-> sinks, pool |-> pool, pitch_bend_value |-> pitch_bend_value,
     status |-> status]

SetEngine(e) ==
    /\ sinks' = e.sinks
    /\ pool' = e.pool
    /\ pitch_bend_value' = e.pitch_bend_value
    /\ status' = e.status

\* A panic unwinds out of the callback: the synthesizer is not written again
\* and no later message is handled.  What the unwinding leaves of the
\* synthesizer is not modelled.
Panic(e, why) == [e EXCEPT !.status = why]

\* note_on, line 133: Sink::try_new(&self.stream_handle).unwrap().  ok is
\* whether the output handed out a sink; unwrap panics when it did not.
NoteOnTryNew(e, h, ok) ==
    IF ok THEN [e EXCEPT !.pool = SinkNew(e.pool, h)]
    ELSE Panic(e, "PanicUnwrap")

\* note_on, line 134: sink.append(SineWave::new(frequency)).
NoteOnAppend(e, h, frequency) ==
    [e EXCEPT !.pool = SinkAppend(e.pool, h, frequency)]

\* A variant of line 135 that leaves an entry that exists in place, as
\* entry(note).or_insert(..) does, and drops the sink just made.
NoteOnInsert_KeepsExisting(e, note, h, base_frequency) ==
    IF note \in DOMAIN e.sinks
    THEN [e EXCEPT !.pool = SinkDrop(e.pool, h)]
    ELSE [e EXCEPT !.sinks = [n \in DOMAIN e.sinks \cup {note} |->
                                 IF n = note
                                 THEN [sink |-> h, base_frequency |-> base_frequency]
                                 ELSE e.sinks[n]]]

\* note_on, line 135: self.sinks.insert(note, (sink, base_frequency)).  insert
\* returns the entry it replaced, and that value is dropped at the end of the
\* statement.
NoteOnInsert(e, note, h, base_frequency) ==
    LET replaced == IF note \in DOMAIN e.sinks THEN {e.sinks[note].sink} ELSE {}
        table == [n \in DOMAIN e.sinks \cup {note} |->
                     IF n = note
                     THEN [sink |-> h, base_frequency |-> base_frequency]
                     ELSE e.sinks[n]]
    IN  [e EXCEPT !.sinks = table,
                  !.pool = [k \in Handles |->
                               IF k \in replaced THEN SinkDrop(e.pool, k)[k]
                               ELSE e.pool[k]]]

\* Synthesizer::note_on.  velocity is not used.
note_on(e, note, velocity, ok) ==
    LET base_frequency == midi_note_to_freq(note)
        frequency == apply_pitch_bend(e.pitch_bend_value, base_frequency)
        h == FreeHandle(e.pool)
        made == NoteOnTryNew(e, h, ok)
    IN  IF made.status # "running" THEN made
        ELSE NoteOnInsert(NoteOnAppend(made, h, frequency), note, h, base_frequency)

\* A variant of note_off that unwraps the removed entry, and so panics when the
\* note has none.
note_off_UnwrapsMissing(e, note) ==
    IF note \in DOMAIN e.sinks
    THEN LET h == e.sinks[note].sink
         IN  [e EXCEPT !.sinks = [n \in DOMAIN e.sinks \ {note} |-> e.sinks[n]],
                       !.pool = SinkDrop(SinkStop(e.pool, h), h)]
    ELSE Panic(e, "PanicUnwrap")

\* A variant of note_off that sets the bend back to 0 when it releases the
\* last voice.
note_off_ResetsBendWhenSilent(e, note) ==
    IF note \in DOMAIN e.sinks
    THEN LET h == e.sinks[note].sink
         IN  [e EXCEPT !.sinks = [n \in DOMAIN e.sinks \ {note} |-> e.sinks[n]],
                       !.pool = SinkDrop(SinkStop(e.pool, h), h),
                       !.pitch_bend_value =
                           IF DOMAIN e.sinks = {note} THEN 0 ELSE @]
    ELSE e

\* A variant of note_off that releases every voice (self.sinks.clear()).
note_off_ReleasesAll(e, note) ==
    IF note \in DOMAIN e.sinks
    THEN [e EXCEPT !.sinks = << >>, !.pool = [h \in Handles |-> NoSink]]
    ELSE e

\* Synthesizer::note_off: remove the entry, stop its sink, drop it.
note_off(e, note) ==
    IF note \in DOMAIN e.sinks
    THEN LET h == e.sinks[note].sink
         IN  [e EXCEPT !.sinks = [n \in DOMAIN e.sinks \ {note} |-> e.sinks[n]],
                       !.pool = SinkDrop(SinkStop(e.pool, h), h)]
    ELSE e

\* A variant of lines 154-157 without sink.clear(): the new tone queues up
\* behind the old one, which never ends.
Retune_WithoutClear(p, h, new_frequency) ==
    SinkPlay(SinkAppend(SinkPause(p, h), h, new_frequency), h)

\* A variant of lines 154-157 without sink.play(): sink.clear() has paused
\* the sink and it stays silent.
Retune_WithoutPlay(p, h, new_frequency) ==
    SinkAppend(SinkClear(SinkPause(p, h), h), h, new_frequency)

\* pitch_bend_change, lines 154-157, for one sink.
Retune(p, h, new_frequency) ==
    SinkPlay(SinkAppend(SinkClear(SinkPause(p, h), h), h, new_frequency), h)

RECURSIVE RetuneAll(_, _, _, _)
\* pitch_bend_change, lines 152-159: the loop over the collected changes.
RetuneAll(p, table, changes, notes) ==
    IF notes = {} THEN p
    ELSE LET note == CHOOSE n \in notes : TRUE
             q == IF note \in DOMAIN table
                  THEN Retune(p, table[note].sink, changes[note])
                  ELSE p
         IN  RetuneAll(q, table, changes, notes \ {note})

\* A variant of pitch_bend_change that bends the frequency each sink is
\* sounding at, not the base frequency of its entry: bends add up.
pitch_bend_change_Accumulates(e, value, checks) ==
    IF SubOverflowsI16(AsI16(value), BendCenter) /\ checks
    THEN Panic(e, "PanicOverflow")
    ELSE LET bend == WrappingSubI16(AsI16(value), BendCenter)
             changes == [note \in DOMAIN e.sinks |->
                            apply_pitch_bend(bend,
                                SoundingFrequency(e.pool[e.sinks[note].sink]))]
         IN  [e EXCEPT !.pitch_bend_value = bend,
                       !.pool = RetuneAll(e.pool, e.sinks, changes, DOMAIN changes)]

\* A variant of pitch_bend_change that writes the bent frequency back into the
\* entry, as its base frequency.
pitch_bend_change_RebasesVoices(e, value, checks) ==
    IF SubOverflowsI16(AsI16(value), BendCenter) /\ checks
    THEN Panic(e, "PanicOverflow")
    ELSE LET bend == WrappingSubI16(AsI16(value), BendCenter)
             changes == [note \in DOMAIN e.sinks |->
                            apply_pitch_bend(bend, e.sinks[note].base_frequency)]
         IN  [e EXCEPT !.pitch_bend_value = bend,
                       !.sinks = [note \in DOMAIN e.sinks |->
                                     [e.sinks[note] EXCEPT
                                         !.base_frequency = changes[note]]],
                       !.pool = RetuneAll(e.pool, e.sinks, changes, DOMAIN changes)]

\* Synthesizer::pitch_bend_change.  checks is whether the build checks
\* arithmetic overflow (it panics) or not (it wraps).
pitch_bend_change(e, value, checks) ==
    IF SubOverflowsI16(AsI16(value), BendCenter) /\ checks
    THEN Panic(e, "PanicOverflow")
    ELSE LET bend == WrappingSubI16(AsI16(value), BendCenter)
             changes == [note \in DOMAIN e.sinks |->
                            apply_pitch_bend(bend, e.sinks[note].base_frequency)]
         IN  [e EXCEPT !.pitch_bend_value = bend,
                       !.pool = RetuneAll(e.pool, e.sinks, changes, DOMAIN changes)]

\* ---------------------------------------------------------------- decoder
\* The kinds of message[0].
IsNoteOff(message) == message # << >> /\ Byte(message, 0) \in 128..143
IsNoteOn(message) == message # << >> /\ Byte(message, 0) \in 144..159
IsPolyPressure(message) == message # << >> /\ Byte(message, 0) \in 160..175
IsControlChange(message) == message # << >> /\ Byte(message, 0) \in 176..191
IsProgramChange(message) == message # << >> /\ Byte(message, 0) \in 192..207
IsChannelPressure(message) == message # << >> /\ Byte(message, 0) \in 208..223
IsPitchBend(message) == message # << >> /\ Byte(message, 0) \in 224..239

\* The number of bytes the arm of message[0] indexes.
BytesRead(message) ==
    IF IsNoteOff(message) \/ IsNoteOn(message) \/ IsPolyPressure(message)
           \/ IsControlChange(message) \/ IsPitchBend(message) THEN 3
    ELSE IF IsProgramChange(message) \/ IsChannelPressure(message) THEN 2
    ELSE 0

\* A variant of the decoder that listens to channel 0 only: its arms are
\* 0x80, 0x90 and 0xE0 and a message of another channel is reported only.
decode_midi_message_ChannelZeroOnly(e, message, ok, checks) ==
    IF message = << >> THEN e
    ELSE IF Len(message) < BytesRead(message) THEN Panic(e, "PanicIndex")
    ELSE IF Byte(message, 0) = 128 THEN note_off(e, Byte(message, 1))
    ELSE IF Byte(message, 0) = 144
    THEN note_on(e, Byte(message, 1), Byte(message, 2), ok)
    ELSE IF Byte(message, 0) = 224
    THEN pitch_bend_change(e, BendValue(message), checks)
    ELSE e

\* A variant of the decoder that follows the MIDI convention the source does
\* not: a NoteOn with velocity 0 releases the note.
decode_midi_message_VelocityZeroIsOff(e, message, ok, checks) ==
    IF message = << >> THEN e
    ELSE IF Len(message) < BytesRead(message) THEN Panic(e, "PanicIndex")
    ELSE IF IsNoteOff(message) THEN note_off(e, Byte(message, 1))
    ELSE IF IsNoteOn(message) /\ Byte(message, 2) = 0 THEN note_off(e, Byte(message, 1))
    ELSE IF IsNoteOn(message) THEN note_on(e, Byte(message, 1), Byte(message, 2), ok)
    ELSE IF IsPitchBend(message) THEN pitch_bend_change(e, BendValue(message), checks)
    ELSE e

\* A variant of the decoder whose first arm is 0x80..=0xAF: a polyphonic key
\* pressure message releases the note.
decode_midi_message_PressureIsOff(e, message, ok, checks) ==
    IF message = << >> THEN e
    ELSE IF Len(message) < BytesRead(message) THEN Panic(e, "PanicIndex")
    ELSE IF IsNoteOff(message) \/ IsPolyPressure(message)
    THEN note_off(e, Byte(message, 1))
    ELSE IF IsNoteOn(message) THEN note_on(e, Byte(message, 1), Byte(message, 2), ok)
    ELSE IF IsPitchBend(message) THEN pitch_bend_change(e, BendValue(message), checks)
    ELSE e

\* decode_midi_message.  An index past the end of the slice panics, and every
\* arm indexes before it calls the synthesizer.
decode_midi_message(e, message, ok, checks) ==
    IF message = << >> THEN e
    ELSE IF Len(message) < BytesRead(message) THEN Panic(e, "PanicIndex")
    ELSE IF IsNoteOff(message) THEN note_off(e, Byte(message, 1))
    ELSE IF IsNoteOn(message) THEN note_on(e, Byte(message, 1), Byte(message, 2), ok)
    ELSE IF IsPitchBend(message) THEN pitch_bend_change(e, BendValue(message), checks)
    ELSE e

\* ---------------------------------------------------------------- actions
Idle == [pc |-> "idle", note |-> 0, base_frequency |-> 0, frequency |-> 0, sink |-> 0]

\* The message calls note_on: a NoteOn message with all its bytes.
CallsNoteOn(message) == IsNoteOn(message) /\ Len(message) >= 3
CallsNoteOff(message) == IsNoteOff(message) /\ Len(message) >= 3
CallsPitchBend(message) == IsPitchBend(message) /\ Len(message) >= 3

\* What the output may answer to Sink::try_new while message is handled.
TryNewOutcomes(message) == IF CallsNoteOn(message) THEN BOOLEAN ELSE {TRUE}

\* The builds that differ on message: those with and without overflow checks,
\* when the subtraction of pitch_bend_change overflows.
OverflowChecks(message) ==
    IF CallsPitchBend(message)
           /\ SubOverflowsI16(AsI16(BendValue(message)), BendCenter)
    THEN BOOLEAN ELSE {TRUE}

\* The history of note_on and note_off calls that returned.
LastOnAfter(e, message, last) ==
    IF e.status # "running" THEN last
    ELSE IF CallsNoteOn(message)
    THEN [last EXCEPT ![Byte(message, 1)] = {FreeHandle(pool)}]
    ELSE IF CallsNoteOff(message)
    THEN [last EXCEPT ![Byte(message, 1)] = {}]
    ELSE last

Init ==
    /\ sinks = << >>
    /\ pool = [h \in Handles |-> NoSink]
    /\ pitch_bend_value = 0
    /\ status = "running"
    /\ msg = << >>
    /\ frame = Idle
    /\ lastOn = [n \in NoteBytes |-> {}]
    /\ released = {}

\* The sinks that p holds and q does not.
ReleasedBetween(p, q) == {h \in Handles : p[h].alloc /\ ~q[h].alloc}

\* A variant in which the callback is entered while a call of it is running.
CallbackIdle_Reentrant == TRUE

\* The callback is a FnMut closure that owns the synthesizer (line 36, move):
\* it is called for a message only when no call of it is running.
CallbackIdle == frame.pc = "idle"

\* The callback of main, lines 36-39: one message, decoded and applied.
Deliver(message, ok, checks) ==
    /\ status = "running"
    /\ CallbackIdle
    /\ CallsNoteOn(message) => HasFreeHandle(pool)
    /\ LET e == decode_midi_message(Engine, message, ok, checks)
       IN  /\ SetEngine(e)
           /\ lastOn' = LastOnAfter(e, message, lastOn)
           /\ released' = ReleasedBetween(pool, e.pool)
    /\ msg' = message
    /\ UNCHANGED frame

Next ==
    \E message \in Messages :
        \E ok \in TryNewOutcomes(message), checks \in OverflowChecks(message) :
            Deliver(message, ok, checks)

Spec == Init /\ [][Next]_vars

\* ------------------------------------------- note_on, statement by statement
\* The same program with note_on executed one statement at a time; every other
\* message is handled in one step, as above.

\* note_on, lines 131-133: the two frequencies and Sink::try_new(..).unwrap().
NoteOnEnter(message, ok) ==
    /\ status = "running"
    /\ frame.pc = "idle"
    /\ CallsNoteOn(message)
    /\ HasFreeHandle(pool)
    /\ LET note == Byte(message, 1)
           base_frequency == midi_note_to_freq(note)
           h == FreeHandle(pool)
       IN  /\ SetEngine(NoteOnTryNew(Engine, h, ok))
           /\ frame' = IF ok
                       THEN [pc |-> "append", note |-> note,
                             base_frequency |-> base_frequency,
                             frequency |-> apply_pitch_bend(pitch_bend_value,
                                                            base_frequency),
                             sink |-> h]
                       ELSE Idle
    /\ msg' = message
    /\ released' = {}
    /\ UNCHANGED lastOn

\* note_on, line 134.
NoteOnAppendStep ==
    /\ frame.pc = "append"
    /\ SetEngine(NoteOnAppend(Engine, frame.sink, frame.frequency))
    /\ frame' = [frame EXCEPT !.pc = "insert"]
    /\ UNCHANGED <<msg, lastOn, released>>

\* note_on, line 135, and the return.
NoteOnInsertStep ==
    /\ frame.pc = "insert"
    /\ LET e == NoteOnInsert(Engine, frame.note, frame.sink, frame.base_frequency)
       IN  /\ SetEngine(e)
           /\ released' = ReleasedBetween(pool, e.pool)
    /\ frame' = Idle
    /\ lastOn' = [lastOn EXCEPT ![frame.note] = {frame.sink}]
    /\ UNCHANGED msg

\* Any message that does not call note_on.
DeliverOther(message, checks) ==
    /\ ~CallsNoteOn(message)
    /\ Deliver(message, TRUE, checks)

NextSteps ==
    \/ \E message \in Messages, ok \in BOOLEAN : NoteOnEnter(message, ok)
    \/ NoteOnAppendStep
    \/ NoteOnInsertStep
    \/ \E message \in Messages :
           \E checks \in OverflowChecks(message) : DeliverOther(message, checks)

SpecSteps == Init /\ [][NextSteps]_vars

\* --------------------------------- pitch_bend_change, iteration by iteration
\* The same program with pitch_bend_change executed one loop iteration at a
\* time; every other message is handled in one step.

\* pitch_bend_change, lines 145-150: the new offset and the collected changes.
\* entry is the engine the call found, a history value.
BendEnter(message, checks) ==
    /\ status = "running"
    /\ CallbackIdle
    /\ CallsPitchBend(message)
    /\ LET value == BendValue(message)
           bend == WrappingSubI16(AsI16(value), BendCenter)
       IN  IF SubOverflowsI16(AsI16(value), BendCenter) /\ checks
           THEN /\ SetEngine(Panic(Engine, "PanicOverflow"))
                /\ UNCHANGED frame
           ELSE /\ pitch_bend_value' = bend
                /\ frame' = [pc |-> "retune",
                             changes |-> [note \in DOMAIN sinks |->
                                             apply_pitch_bend(bend,
                                                 sinks[note].base_frequency)],
                             todo |-> DOMAIN sinks,
                             retuned |-> << >>,
                             entry |-> Engine]
                /\ UNCHANGED <<sinks, pool, status>>
    /\ msg' = message
    /\ released' = {}
    /\ UNCHANGED lastOn

\* pitch_bend_change, lines 152-158: one iteration of the loop.  The order of
\* changes is the iteration order of the HashMap, which is any order.
BendRetuneStep ==
    /\ frame.pc = "retune"
    /\ \E note \in frame.todo :
           /\ pool' = IF note \in DOMAIN sinks
                      THEN Retune(pool, sinks[note].sink, frame.changes[note])
                      ELSE pool
           /\ frame' = [frame EXCEPT !.todo = @ \ {note},
                                     !.retuned = Append(@, note)]
    /\ UNCHANGED <<sinks, pitch_bend_value, status, msg, lastOn, released>>

\* pitch_bend_change, lines 159-160: the loop is over and the call returns.
BendReturn ==
    /\ frame.pc = "retune"
    /\ frame.todo = {}
    /\ frame' = Idle
    /\ UNCHANGED <<sinks, pool, pitch_bend_value, status, msg, lastOn, released>>

\* Any message that does not call pitch_bend_change.
DeliverNonBend(message, ok) ==
    /\ ~CallsPitchBend(message)
    /\ Deliver(message, ok, TRUE)

NextBend ==
    \/ \E message \in Messages :
           \E checks \in OverflowChecks(message) : BendEnter(message, checks)
    \/ BendRetuneStep
    \/ BendReturn
    \/ \E message \in Messages :
           \E ok \in TryNewOutcomes(message) : DeliverNonBend(message, ok)

SpecBend == Init /\ [][NextBend]_vars

\* ------------------------------------------------------------ properties
\* The voice of note n, as the table has it.
Voice(n) == pool[sinks[n].sink]

\* C1: the table has one entry for each note whose last note_on no note_off of
\* that note followed, and no other; the entry holds the sink that note_on
\* made, which is sounding; every sink of the output belongs to exactly one
\* entry, so the sink of a replaced entry is released.
C1_OneVoicePerNoteTheLatest ==
    /\ \A n \in NoteBytes : (n \in DOMAIN sinks) <=> (lastOn[n] # {})
    /\ \A n \in DOMAIN sinks :
           /\ n \in DOMAIN lastOn
           /\ lastOn[n] = {sinks[n].sink}
           /\ Sounding(Voice(n))
    /\ \A h \in Handles :
           pool[h].alloc => Cardinality({n \in DOMAIN sinks : sinks[n].sink = h}) = 1

\* note_on(60, _) returned after it replaced a voice of 60: one voice for 60,
\* the new one, and the old sink released.
C1_Witness ==
    /\ status = "running"
    /\ msg = <<144, 60, 100>>
    /\ released # {}
    /\ 60 \in DOMAIN sinks
    /\ sinks[60].sink \notin released
    /\ \A h \in released : ~pool[h].alloc

\* C2: every voice of the table sounds at the frequency computed from its base
\* frequency and the current value of pitch_bend_value.
C2_NoStaleBend ==
    \A n \in DOMAIN sinks :
        /\ Sounding(Voice(n))
        /\ SoundingFrequency(Voice(n))
               = apply_pitch_bend(pitch_bend_value, sinks[n].base_frequency)

\* Bend before note: a note_on returned while a bend of one semitone up was in
\* effect, next to another voice, and its voice sounds one semitone above its
\* base frequency.
C2_Witness ==
    /\ status = "running"
    /\ CallsNoteOn(msg)
    /\ pitch_bend_value = 4096
    /\ Cardinality(DOMAIN sinks) >= 2
    /\ Byte(msg, 1) \in DOMAIN sinks
    /\ SoundingFrequency(Voice(Byte(msg, 1)))
           = midi_note_to_freq(Byte(msg, 1)) + UnitsPerSemitone

\* The sinks that sound for note n: the one of its entry, and the one a
\* note_on of n in progress has made.
SinksOf(n) ==
    {h \in Handles :
        /\ Sounding(pool[h])
        /\ \/ n \in DOMAIN sinks /\ sinks[n].sink = h
           \/ frame.pc # "idle" /\ frame.note = n /\ frame.sink = h}

\* C3: at no step of note_on do two sounding sinks exist for the same note (the
\* sink of the entry that is replaced is released before the new one starts).
C3_NeverTwoSinksForANote ==
    \A n \in NoteBytes : Cardinality(SinksOf(n)) <= 1

\* C4: note_off never fails and leaves no voice for the note; on a note
\* without entry it changes nothing; a second note_off changes nothing more.
C4_NoteOffIdempotent ==
    \A n \in NoteBytes :
        LET once == note_off(Engine, n)
        IN  /\ once.status = status
            /\ n \notin DOMAIN once.sinks
            /\ n \notin DOMAIN sinks => once = Engine
            /\ note_off(once, n) = once

\* A NoteOff message was handled for a note without voice, while other notes
\* had one and a bend was in effect.
C4_Witness ==
    /\ status = "running"
    /\ msg = <<128, 60, 0>>
    /\ released = {}
    /\ 60 \notin DOMAIN sinks
    /\ sinks # << >>
    /\ pitch_bend_value # 0

\* C5: a note_on that gets no sink from the output returns; the path that
\* handles events does not end with the panic of an unwrap.
C5_SinkFailureIsLocal == status # "PanicUnwrap"

\* C6: a message with fewer bytes than its status byte asks for is turned down
\* with an error the caller survives; the callback does not panic.
C6_TruncatedIsRecoverable ==
    (msg # << >> /\ Len(msg) < BytesRead(msg)) => status = "running"

\* C7: the bend offset always lies in [-8192, 8191].
C7_BendOffsetInRange == pitch_bend_value \in -8192..8191

\* The data bytes of the message are MIDI data bytes: 7 bits each.
HasDataBytes(message) == \A i \in 2..Len(message) : message[i] \in 0..127

Returns(message) == status = "running" /\ msg' = message /\ status' = "running"

\* C9: a NoteOn message with velocity 0 is applied as a note_on: after it the
\* note has a sounding voice on a sink made by this call, and the sink of the
\* voice it had before, if any, is released.
C9_VelocityZeroIsNoteOn ==
    [][\A n \in NoteBytes :
           Returns(<<144, n, 0>>) =>
               /\ n \in DOMAIN sinks'
               /\ Sounding(pool'[sinks'[n].sink])
               /\ ~pool[sinks'[n].sink].alloc
               /\ n \in DOMAIN sinks =>
                      /\ sinks'[n].sink # sinks[n].sink
                      /\ ~pool'[sinks[n].sink].alloc]_vars

\* A NoteOn with velocity 0 replaced the voice of note 60.
C9_Witness ==
    /\ status = "running"
    /\ msg = <<144, 60, 0>>
    /\ released # {}
    /\ 60 \in DOMAIN sinks
    /\ Sounding(Voice(60))

\* The empty message, a message of a kind that is reported only (status 0xA_
\* to 0xD_) with its data bytes, and a message whose status byte is outside
\* 0x80..0xEF.
IsReportedOnly(message) ==
    \/ message = << >>
    \/ message[1] \in 160..191 /\ Len(message) >= 3
    \/ message[1] \in 192..223 /\ Len(message) >= 2
    \/ message[1] \notin 128..239

\* C10: a message that is reported only leaves the table, the sinks and the
\* bend offset as they were, and does not fail.
C10_ReportedOnlyChangesNothing ==
    [][(status = "running" /\ IsReportedOnly(msg'))
           => UNCHANGED <<sinks, pool, pitch_bend_value, status>>]_vars

\* A control change was handled while voices were sounding bent.
C10_Witness ==
    /\ status = "running"
    /\ msg \in {<<176, 60, 100>>, <<160, 60, 100>>}
    /\ 60 \in DOMAIN sinks
    /\ Cardinality(DOMAIN sinks) >= 2
    /\ pitch_bend_value # 0

\* The voice of note n in engine e sounds at exactly its base frequency.
AtBaseFrequency(e, n) ==
    /\ Sounding(e.pool[e.sinks[n].sink])
    /\ SoundingFrequency(e.pool[e.sinks[n].sink]) = e.sinks[n].base_frequency
    /\ e.sinks[n].base_frequency = midi_note_to_freq(n)

\* The engine after pitch_bend_change with the encoded value of bytes b, then
\* note_off of the notes in off (none or one), then pitch_bend_change(8192).
RoundTrip(e, b, off) ==
    LET bent == pitch_bend_change(e, BendValue(<<224, b[1], b[2]>>), FALSE)
        fewer == IF off = {} THEN bent ELSE note_off(bent, CHOOSE n \in off : TRUE)
    IN  pitch_bend_change(fewer, BendCenter, FALSE)

\* C11: from every state in which messages are handled, a pitch bend of any encoded value followed by the
\* pitch bend 8192, with or without a note_off in between, leaves the offset 0
\* and every voice that is left sounding at exactly its base frequency; and
\* whenever the offset is 0 every voice sounds at its base frequency.
C11_BendRoundTrip ==
    /\ pitch_bend_value = 0 => \A n \in DOMAIN sinks : AtBaseFrequency(Engine, n)
    /\ status = "running" => \A b \in BendBytes :
           \A off \in {{}} \cup {{k} : k \in NoteBytes} :
               LET e == RoundTrip(Engine, b, off)
               IN  /\ e.pitch_bend_value = 0
                   /\ DOMAIN e.sinks = DOMAIN sinks \ off
                   /\ \A n \in DOMAIN e.sinks :
                          /\ AtBaseFrequency(e, n)
                          /\ e.sinks[n] = sinks[n]

\* The engine of Init.
Engine0 ==
    [sinks |-> << >>, pool |-> [h \in Handles |-> NoSink], pitch_bend_value |-> 0,
     status |-> "running"]

RECURSIVE Applied(_, _)
\* The engine after the messages of log, in order, with every sink granted.
Applied(e, log) ==
    IF log = << >> THEN e
    ELSE Applied(decode_midi_message(e, Head(log), TRUE, FALSE), Tail(log))

\* The scenario note_on(60, 100), note_on(64, 100), pitch_bend(16383),
\* note_off(60), pitch_bend(8192) has run: the table holds 64 alone, at its
\* base frequency.
C11_Witness ==
    /\ status = "running"
    /\ msg = <<224, 0, 64>>
    /\ Engine = Applied(Engine0, << <<144, 60, 100>>, <<144, 64, 100>>,
                                  <<224, 127, 127>>, <<128, 60, 0>>, <<224, 0, 64>> >>)
    /\ DOMAIN sinks = {64}
    /\ AtBaseFrequency(Engine, 64)

\* The channels of a status byte.
Channels == 0..15

\* message with the channel nibble of its status byte set to c.
WithChannel(message, c) ==
    [message EXCEPT ![1] = (message[1] \div 16) * 16 + c]

\* The full NoteOff, NoteOn and PitchBend messages of channel 0.
ActedOnChannel0 == {m \in FullMessages : m[1] \in {128, 144, 224}}

\* Handling message on channel c leaves of the engine what handling it on
\* channel 0 leaves, whether the output grants a sink or not.
SameOnChannel(message, c) ==
    \A ok \in TryNewOutcomes(message) :
        decode_midi_message(Engine, WithChannel(message, c), ok, FALSE)
            = decode_midi_message(Engine, message, ok, FALSE)

\* C12: in every state in which messages are handled, a NoteOn, NoteOff or
\* PitchBend message has the same effect on the engine on channel 15 as on
\* channel 0, and one message of each kind has it on all 16 channels; a
\* NoteOff on channel 15 releases the voice a NoteOn on channel 0 starts.
C12_ChannelIgnored ==
    status = "running" =>
        /\ \A m \in ActedOnChannel0 : SameOnChannel(m, 15)
        /\ \A m \in {<<128, 60, 0>>, <<144, 60, 100>>, <<224, 127, 127>>} :
               \A c \in Channels : SameOnChannel(m, c)
        /\ \A n \in NoteBytes :
               n \notin DOMAIN Applied(Engine, << <<144, n, 100>>, <<143, n, 0>> >>).sinks

\* NoteOn 60 on channel 0, NoteOn 64, a pitch bend and NoteOff 60 on channel 15
\* were handled: the voice of 60 is released and the voice of 64 is bent.
C12_Witness ==
    /\ status = "running"
    /\ msg = <<143, 60, 0>>
    /\ released # {}
    /\ Engine = Applied(Engine0, << <<144, 60, 100>>, <<159, 64, 100>>,
                                  <<239, 127, 127>>, <<143, 60, 0>> >>)
    /\ DOMAIN sinks = {64}
    /\ SoundingFrequency(Voice(64)) = midi_note_to_freq(64) + 8191


\* C13: every key of the voice table is a note number, in 0..127.
C13_KeysAreNoteNumbers == \A n \in DOMAIN sinks : n \in 0..127


\* The slots of the output that hold a Sink.
Allocated(p) == {h \in Handles : p[h].alloc}

\* The notes of a sequence.
Range(seq) == {seq[i] : i \in 1..Len(seq)}

\* C14: the output holds as many sinks as the table has entries; a slot that
\* holds no sink changes only by a note_on taking it (a released sink is not
\* retuned and not released again); pitch_bend_change starts from a snapshot of
\* the notes of the table, leaves the table and the sink of every voice as
\* they are in every iteration, and when it returns it has retuned each voice
\* of the snapshot once and every voice is playing one tone.
C14_BendKeepsVoices ==
    [][/\ Cardinality(Allocated(pool')) = Cardinality(DOMAIN sinks')
       /\ \A h \in Handles :
              (~pool[h].alloc /\ pool'[h] # pool[h]) =>
                  /\ CallsNoteOn(msg')
                  /\ sinks'[Byte(msg', 1)].sink = h
       /\ released' \subseteq Allocated(pool)
       /\ (frame.pc = "idle" /\ frame'.pc = "retune") =>
              /\ sinks' = sinks
              /\ pool' = pool
              /\ frame'.todo = DOMAIN sinks
       /\ frame.pc = "retune" =>
              /\ sinks' = sinks
              /\ Allocated(pool') = Allocated(pool)
              /\ \A h \in Handles :
                     pool'[h] # pool[h] => \E n \in DOMAIN sinks : sinks[n].sink = h
       /\ (frame.pc = "retune" /\ frame'.pc = "idle") =>
              /\ sinks' = frame.entry.sinks
              /\ Allocated(pool') = Allocated(frame.entry.pool)
              /\ Range(frame.retuned) = DOMAIN frame.entry.sinks
              /\ Len(frame.retuned) = Cardinality(DOMAIN frame.entry.sinks)
              /\ \A n \in DOMAIN sinks' :
                     /\ Sounding(pool'[sinks'[n].sink])
                     /\ Len(pool'[sinks'[n].sink].queue) = 1]_vars

\* pitch_bend_change has retuned two voices, one after the other, and is about
\* to return: both play the bent tone.
C14_Witness ==
    /\ frame.pc = "retune"
    /\ frame.todo = {}
    /\ Len(frame.retuned) = 2
    /\ DOMAIN sinks = {60, 64}
    /\ pitch_bend_value = 8191
    /\ \A n \in DOMAIN sinks :
           /\ Sounding(Voice(n))
           /\ Voice(n).queue = <<midi_note_to_freq(n) + 8191>>


\* C15: the base frequency stored under key n is midi_note_to_freq(n), the
\* pitch (n - 69) semitones from A4 (440 Hz, note 69; an octave is 12
\* semitones), whatever bends were applied; the voice sounds at that base
\* frequency bent once by the current offset.
C15_BaseFrequencyFixed ==
    /\ midi_note_to_freq(69) = 0
    /\ midi_note_to_freq(57) = -12 * UnitsPerSemitone
    /\ midi_note_to_freq(81) = 12 * UnitsPerSemitone
    /\ \A n \in DOMAIN sinks :
           /\ sinks[n].base_frequency = midi_note_to_freq(n)
           /\ sinks[n].base_frequency = (n - 69) * UnitsPerSemitone
           /\ Voice(n).queue = <<sinks[n].base_frequency + pitch_bend_value>>

\* note_on(60), then the highest pitch bend, then a pitch bend of a semitone
\* up: the entry of 60 has the base frequency of 60 and sounds a semitone up.
C15_Witness ==
    /\ status = "running"
    /\ msg = <<224, 0, 96>>
    /\ Engine = Applied(Engine0, << <<144, 60, 100>>, <<224, 127, 127>>,
                                  <<224, 0, 96>> >>)
    /\ sinks[60].base_frequency = midi_note_to_freq(60)
    /\ Voice(60).queue = <<midi_note_to_freq(60) + UnitsPerSemitone>>


\* C16: pitch_bend_value changes only in a step that handles a pitch-bend
\* message, to the encoded value of the message less 8192; every other step
\* (note_on, note_off, messages reported only, failures) leaves it.
C16_OnlyPitchBendChangesBend ==
    [][pitch_bend_value' # pitch_bend_value =>
           /\ CallsPitchBend(msg')
           /\ pitch_bend_value' = BendValue(msg') - BendCenter]_vars

\* The last voice was released while a bend was in effect: the table is empty
\* and the bend is still there.
C16_Witness ==
    /\ status = "running"
    /\ CallsNoteOff(msg)
    /\ released # {}
    /\ sinks = << >>
    /\ pitch_bend_value = 4096


\* C17: a note leaves the table only in a step that handles a NoteOff message
\* for that note; such a step leaves every other entry and its sink as they
\* were; and the sink of an entry is exchanged only by a NoteOn of its note.
C17_VoicesSustain ==
    [][/\ \A n \in DOMAIN sinks :
              n \notin DOMAIN sinks' => (CallsNoteOff(msg') /\ Byte(msg', 1) = n)
       /\ CallsNoteOff(msg') =>
              \A k \in DOMAIN sinks \ {Byte(msg', 1)} :
                  /\ k \in DOMAIN sinks'
                  /\ sinks'[k] = sinks[k]
                  /\ pool'[sinks[k].sink] = pool[sinks[k].sink]
       /\ \A k \in DOMAIN sinks \cap DOMAIN sinks' :
              sinks'[k].sink # sinks[k].sink =>
                  (CallsNoteOn(msg') /\ Byte(msg', 1) = k)]_vars

\* NoteOff 60 released the voice of 60 and the voice of 64 goes on sounding.
C17_Witness ==
    /\ status = "running"
    /\ msg = <<128, 60, 0>>
    /\ released # {}
    /\ 60 \notin DOMAIN sinks
    /\ 64 \in DOMAIN sinks
    /\ Sounding(Voice(64))


\* C18: a message is taken up only when no call of the callback is running;
\* while pitch_bend_change runs, every step is one of its iterations; when it
\* returns the engine is what decode_midi_message makes, in one piece, of the
\* engine the call found; and every other message is applied in one piece.
C18_OneMessageAtATime ==
    [][/\ msg' # msg => frame.pc = "idle"
       /\ frame.pc = "retune" =>
              /\ frame'.pc \in {"retune", "idle"}
              /\ UNCHANGED <<sinks, pitch_bend_value, status, msg, lastOn>>
              /\ frame'.pc = "retune" =>
                     /\ frame'.entry = frame.entry
                     /\ frame'.changes = frame.changes
       /\ (frame.pc = "retune" /\ frame'.pc = "idle") =>
              Engine' = decode_midi_message(frame.entry, msg, TRUE, FALSE)
       /\ (frame.pc = "idle" /\ frame'.pc = "idle") =>
              \E ok \in TryNewOutcomes(msg') :
                  Engine' = decode_midi_message(Engine, msg', ok, FALSE)]_vars

\* pitch_bend_change is half way: of two voices one plays the new frequency
\* and the other the old one, and the next iteration is the only step there is.
C18_Witness ==
    /\ frame.pc = "retune"
    /\ Len(frame.retuned) = 1
    /\ Cardinality(frame.todo) = 1
    /\ \A n \in frame.todo :
           SoundingFrequency(Voice(n))
               # apply_pitch_bend(pitch_bend_value, sinks[n].base_frequency)
    /\ \A n \in Range(frame.retuned) :
           SoundingFrequency(Voice(n))
               = apply_pitch_bend(pitch_bend_value, sinks[n].base_frequency)
    /\ ~ENABLED (\E message \in Messages :
                     \E ok \in BOOLEAN : DeliverNonBend(message, ok))


\* Bytes at the ends and in the middle of 0..255.
EdgeBytes == {0, 1, 127, 128, 255}

\* The 16-bit arithmetic of lines 103 and 145 on data bytes byte1, byte2:
\* the shift loses no bit, the value is at most 32767, it is not negative
\* as an i16, and the subtraction of 8192 stays in the i16 range, so that
\* checked and wrapping builds compute the same offset.
BendArithmeticExact(byte1, byte2) ==
    LET value == BendValue(<<224, byte1, byte2>>)
    IN  /\ ShiftLeft7_u16(byte2) = byte2 * 128
        /\ value <= 32767
        /\ AsI16(value) = value
        /\ ~SubOverflowsI16(AsI16(value), BendCenter)
        /\ WrappingSubI16(AsI16(value), BendCenter) = value - BendCenter

\* C19: for pitch-bend messages with data bytes anywhere in 0..255 the bend
\* computation never wraps or overflows: no call of pitch_bend_change ends
\* in an overflow panic, the offset stored is exactly the value minus 8192,
\* and the arithmetic is exact at the ends of the byte range.
C19_BendArithmeticNeverWraps ==
    /\ status # "PanicOverflow"
    /\ (CallsPitchBend(msg) /\ status = "running") =>
           /\ BendArithmeticExact(Byte(msg, 1), Byte(msg, 2))
           /\ pitch_bend_value = BendValue(msg) - BendCenter
           /\ pitch_bend_value \in -8192..24575
    /\ \A byte1 \in EdgeBytes, byte2 \in EdgeBytes :
           BendArithmeticExact(byte1, byte2)

\* The largest value there is, from two bytes of 255, has been applied.
C19_Witness ==
    /\ status = "running"
    /\ msg \in {<<224, 255, 255>>, <<239, 255, 255>>}
    /\ BendValue(msg) = 32767
    /\ pitch_bend_value = 24575

====
